---- MODULE Spec2Model ----
(***************************************************************************)
(* The inline markdown-span parser (InlineParser): its rule patterns, its *)
(* semantic actions and the recursive render driver, over the parse state *)
(* (def_links, def_footnotes, footnote_index, footnotes, _in_link).       *)
(* Texts are strings; a character is a string of length one.              *)
(***************************************************************************)
EXTENDS Integers, Sequences, FiniteSets, TLC

At(s, i) == SubSeq(s, i, i)

(* ------------------------- character classes ------------------------- *)

LowerCase ==
  {"a","b","c","d","e","f","g","h","i","j","k","l","m",
   "n","o","p","q","r","s","t","u","v","w","x","y","z"}

UpperCase ==
  {"A","B","C","D","E","F","G","H","I","J","K","L","M",
   "N","O","P","Q","R","S","T","U","V","W","X","Y","Z"}

Digit == {"0","1","2","3","4","5","6","7","8","9"}

Alpha == LowerCase \cup UpperCase

AlNum == Alpha \cup Digit

\* \w
WordChar == AlNum \cup {"_"}

\* \s
Space == {" ", "\t", "\n", "\r", "\f"}

\* \x00-\x1f, as far as a string can hold them
Control == {"\t", "\n", "\r", "\f"}

\* the grave accent (U+0060); a string of the module cannot hold that
\* character, so the acute accent stands for it in every text and pattern
Backtick == "´"

PUNCTUATION ==
  {"\\","!","\"","#","$","%","&","'","(",")","*","+",",",".","/",":",
   ";","<","=",">","?","@","[","]","^",Backtick,"{","}","|","_","~","-"}

(* ------------------------ regular expressions ------------------------ *)
(* A pattern is a tree of nodes; the matcher below is the backtracking    *)
(* matcher of the re module: alternatives in order, greedy and lazy       *)
(* repetition, groups, look-around, \b, $ and back-references.            *)

In(S) == [t |-> "set", neg |-> FALSE, cs |-> S]

NotIn(S) == [t |-> "set", neg |-> TRUE, cs |-> S]

Ch(c) == In({c})

\* [\s\S]
AnyChar == NotIn({})

Cat(rs) == [t |-> "seq", rs |-> rs]

Word(w) == Cat([i \in 1..Len(w) |-> Ch(At(w, i))])

Or(rs) == [t |-> "alt", rs |-> rs]

\* max = -1: no upper limit
Rep(r, min, max, lazy) ==
  [t |-> "rep", r |-> r, min |-> min, max |-> max, lazy |-> lazy, n |-> 0]

Star(r) == Rep(r, 0, -1, FALSE)

StarLazy(r) == Rep(r, 0, -1, TRUE)

Plus(r) == Rep(r, 1, -1, FALSE)

PlusLazy(r) == Rep(r, 1, -1, TRUE)

Opt(r) == Rep(r, 0, 1, FALSE)

Group(n, r) == [t |-> "grp", n |-> n, r |-> r]

Ahead(r) == [t |-> "la", neg |-> FALSE, r |-> r]

NotAhead(r) == [t |-> "la", neg |-> TRUE, r |-> r]

\* look-behind over one character of the set S
Behind(S) == [t |-> "lb", neg |-> FALSE, cs |-> S]

NotBehind(S) == [t |-> "lb", neg |-> TRUE, cs |-> S]

WordBoundary == [t |-> "wb"]

EndOfString == [t |-> "eos"]

BackRef(n) == [t |-> "ref", n |-> n]

NoGroups == <<<<0, 0>>, <<0, 0>>, <<0, 0>>>>

\* m.group(n) of a match with groups c on s; None reads as ""
GroupText(s, c, n) ==
  IF c[n][1] = 0 THEN "" ELSE SubSeq(s, c[n][1], c[n][2] - 1)

IsWordAt(s, i) == i >= 1 /\ i <= Len(s) /\ At(s, i) \in WordChar

(* The matcher is a machine: k holds the nodes still to match, i the      *)
(* position, c the groups, bt the alternatives left to try (the first is  *)
(* tried first on failure); st is "run", "ok" or "fail".                  *)

Start(r, i) == [st |-> "run", k |-> <<r>>, i |-> i, c |-> NoGroups, bt |-> <<>>]

Alternative(k, i, c) == [k |-> k, i |-> i, c |-> c]

\* a failure: the next alternative, or no match
Back(x) ==
  IF x.bt = <<>> THEN [x EXCEPT !.st = "fail"]
  ELSE [st |-> "run", k |-> x.bt[1].k, i |-> x.bt[1].i, c |-> x.bt[1].c,
        bt |-> Tail(x.bt)]

RECURSIVE Run(_, _, _)
\* one step of the machine on the text s
Step(x, s) ==
  IF x.st # "run" THEN x
  ELSE IF x.k = <<>> THEN [x EXCEPT !.st = "ok"]
  ELSE
    LET h == Head(x.k)
        rest == Tail(x.k)
        i == x.i
        Go(cond) == IF cond THEN [x EXCEPT !.k = rest] ELSE Back(x)
    IN  CASE h.t = "set" ->
               IF i <= Len(s) /\ ((At(s, i) \in h.cs) # h.neg)
               THEN [x EXCEPT !.k = rest, !.i = i + 1] ELSE Back(x)
          [] h.t = "seq" -> [x EXCEPT !.k = h.rs \o rest]
          [] h.t = "alt" ->
               [x EXCEPT !.k = <<h.rs[1]>> \o rest,
                         !.bt = [j \in 1..(Len(h.rs) - 1) |->
                                   Alternative(<<h.rs[j + 1]>> \o rest, i, x.c)] \o x.bt]
          [] h.t = "rep" ->
               LET canStop == h.n >= h.min
                   canMore == h.max = -1 \/ h.n < h.max
                   more == <<h.r, [h EXCEPT !.n = h.n + 1]>> \o rest
                   first == IF h.lazy THEN IF canStop THEN rest ELSE more
                            ELSE IF canMore THEN more ELSE rest
                   second == IF h.lazy THEN more ELSE rest
               IN  IF ~canStop /\ ~canMore THEN Back(x)
                   ELSE [x EXCEPT !.k = first,
                                  !.bt = IF canStop /\ canMore
                                         THEN <<Alternative(second, i, x.c)>> \o x.bt
                                         ELSE x.bt]
          [] h.t = "grp" ->
               [x EXCEPT !.k = <<h.r, [t |-> "end", n |-> h.n, from |-> i]>> \o rest]
          [] h.t = "end" ->
               [x EXCEPT !.k = rest, !.c[h.n] = <<h.from, i>>]
          [] h.t = "la" ->
               Go((Run(Start(h.r, i), s, 1).st = "ok") # h.neg)
          [] h.t = "lb" -> Go((i > 1 /\ At(s, i - 1) \in h.cs) # h.neg)
          [] h.t = "wb" -> Go(IsWordAt(s, i - 1) # IsWordAt(s, i))
          [] h.t = "eos" -> Go(i = Len(s) + 1 \/ (i = Len(s) /\ At(s, i) = "\n"))
          [] h.t = "ref" ->
               LET g == GroupText(s, x.c, h.n)
               IN  IF x.c[h.n][1] # 0 /\ i + Len(g) - 1 <= Len(s)
                      /\ SubSeq(s, i, i + Len(g) - 1) = g
                   THEN [x EXCEPT !.k = rest, !.i = i + Len(g)] ELSE Back(x)

RECURSIVE RunSteps(_, _, _)
\* at most n steps of the machine (n a power of two)
RunSteps(x, s, n) ==
  IF x.st # "run" THEN x
  ELSE IF n = 1 THEN Step(x, s)
  ELSE RunSteps(RunSteps(x, s, n \div 2), s, n \div 2)

\* the machine y after n steps: stopped, or run on
Continue(y, s, n) == IF y.st # "run" THEN y ELSE Run(y, s, 2 * n)

\* the machine run to its end: n steps, then twice as many, until it stops
Run(x, s, n) == Continue(RunSteps(x, s, n), s, n)

\* the match object of a stopped machine
Outcome(x) == [ok |-> x.st = "ok", p |-> x.i, c |-> x.c]

\* pattern.match(s, i): [ok, p: the end of the match, c: its groups]
Match(r, s, i) == Outcome(Run(Start(r, i), s, 1))

(* --------------------------- rule patterns --------------------------- *)

\* ESCAPE = \\[PUNCTUATION]
ESCAPE == Cat(<<Ch("\\"), In(PUNCTUATION)>>)

\* [A-Za-z][A-Za-z0-9-]*
HTML_TAGNAME == Cat(<<In(Alpha), Star(In(AlNum \cup {"-"}))>>)

HTML_ATTRIBUTES ==
  Star(Cat(<<
    Plus(In(Space)),
    In(Alpha \cup {"_", ":"}),
    Star(In(AlNum \cup {"_", ".", ":", "-"})),
    Opt(Cat(<<
      Star(In(Space)), Ch("="), Star(In(Space)),
      Or(<<Plus(NotIn({" ", "\"", "'", "=", "<", ">", Backtick})),
           Cat(<<Ch("'"), StarLazy(NotIn({"'"})), Ch("'")>>),
           Cat(<<Ch("\""), StarLazy(NotIn({"\""})), Ch("\"")>>)>>)>>))>>))

\* \[((?:\[[^\[\]]*\]|\\[\[\]]?|`[^`]*`|[^\[\]\\])*?)\]   (group 1)
LINK_LABEL ==
  Cat(<<
    Ch("["),
    Group(1, StarLazy(Or(<<
      Cat(<<Ch("["), Star(NotIn({"[", "]"})), Ch("]")>>),
      Cat(<<Ch("\\"), Opt(In({"[", "]"}))>>),
      Cat(<<Ch(Backtick), Star(NotIn({Backtick})), Ch(Backtick)>>),
      NotIn({"[", "]", "\\"})>>))),
    Ch("]")>>)

AUTO_LINK ==
  Cat(<<
    NotBehind({"\\"}),
    Star(Word("\\\\")),
    Ch("<"),
    Group(1, Or(<<
      Cat(<<In(Alpha), Rep(In(AlNum \cup {"+", ".", "-"}), 1, 31, FALSE), Ch(":"),
            StarLazy(NotIn({" ", "<", ">"}))>>),
      Cat(<<
        Plus(In(AlNum \cup {".","!","#","$","%","&","'","*","+","/","=","?",
                            "^","_",Backtick,"{","|","}","~","-"})),
        Ch("@"),
        In(AlNum),
        Opt(Cat(<<Rep(In(AlNum \cup {"-"}), 0, 61, FALSE), In(AlNum)>>)),
        Star(Cat(<<Ch("."), In(AlNum),
                   Opt(Cat(<<Rep(In(AlNum \cup {"-"}), 0, 61, FALSE), In(AlNum)>>))>>))
      >>)>>)),
    Ch(">")>>)

\* the optional title of STD_LINK: "..." or '...' or (...)
LINK_TITLE ==
  Or(<<
    Cat(<<Ch("\""), Star(Or(<<Cat(<<Ch("\\"), Opt(Ch("\""))>>), NotIn({"\"", "\\"})>>)), Ch("\"")>>),
    Cat(<<Ch("'"), Star(Or(<<Cat(<<Ch("\\"), Opt(Ch("'"))>>), NotIn({"'", "\\"})>>)), Ch("'")>>),
    Cat(<<Ch("("), Star(Or(<<Cat(<<Ch("\\"), Opt(Ch(")"))>>), NotIn({")", "\\"})>>)), Ch(")")>>)>>)

STD_LINK ==
  Cat(<<
    Opt(Ch("!")),
    LINK_LABEL,
    Ch("("),
    Star(In(Space)),
    Group(2, Or(<<
      Cat(<<Ch("<"),
            Star(Or(<<Cat(<<Ch("\\"), Opt(In({"<", ">"}))>>),
                      NotIn(Space \cup {"<", ">", "\\"})>>)),
            Ch(">")>>),
      StarLazy(Or(<<
        Cat(<<Ch("\\"), Opt(In({"(", ")"}))>>),
        Cat(<<Ch("("), Star(NotIn(Space \cup Control \cup {"\\"})), Ch(")")>>),
        NotIn(Space \cup Control \cup {"(", ")", "\\"})>>))>>)),
    Opt(Cat(<<Plus(In(Space)), Group(3, LINK_TITLE)>>)),
    Star(In(Space)),
    Ch(")")>>)

\* (?:[^\\\[\]]|ESCAPE){0,1000}
REF_KEY == Rep(Or(<<NotIn({"\\", "[", "]"}), ESCAPE>>), 0, 1000, FALSE)

REF_LINK ==
  Cat(<<Opt(Ch("!")), LINK_LABEL, Ch("["), Group(2, REF_KEY), Ch("]")>>)

REF_LINK2 ==
  Cat(<<Opt(Ch("!")), Ch("["), Group(1, REF_KEY), Ch("]")>>)

EMPHASIS ==
  Or(<<
    Cat(<<WordBoundary, Ch("_"), NotIn(Space \cup {"_"}),
          Opt(Cat(<<Behind({"\\"}), Ch("_")>>)), Ch("_")>>),
    Cat(<<Ch("*"), NotIn(Space \cup {"*"}),
          Opt(Cat(<<Behind({"\\"}), Ch("*")>>)), Ch("*")>>),
    Cat(<<WordBoundary, Ch("_"), NotIn(Space \cup {"_"}), StarLazy(AnyChar),
          NotIn(Space \cup {"_"}), Ch("_"),
          NotAhead(Or(<<Ch("_"), NotIn(Space \cup PUNCTUATION)>>)), WordBoundary>>),
    Cat(<<Ch("*"), NotIn(Space \cup {"*", "\"", "<", "["}), StarLazy(AnyChar),
          NotIn(Space \cup {"*"}), Ch("*")>>)>>)

STRONG ==
  Or(<<
    Cat(<<WordBoundary, Word("__"), NotIn(Space \cup {"_"}), Word("__"),
          NotAhead(Ch("_")), WordBoundary>>),
    Cat(<<Word("**"), NotIn(Space \cup {"*"}), Word("**"), NotAhead(Ch("*"))>>),
    Cat(<<WordBoundary, Word("__"), NotIn(Space), StarLazy(AnyChar), NotIn(Space),
          Word("__"), NotAhead(Ch("_")), WordBoundary>>),
    Cat(<<Word("**"), NotIn(Space), StarLazy(AnyChar), NotIn(Space),
          Word("**"), NotAhead(Ch("*"))>>)>>)

\* (?<!\\|`)(?:\\\\)*(`+)(?!`)([\s\S]+?)(?<!`)\1(?!`)
CODESPAN ==
  Cat(<<
    NotBehind({"\\", Backtick}),
    Star(Word("\\\\")),
    Group(1, Plus(Ch(Backtick))),
    NotAhead(Ch(Backtick)),
    Group(2, PlusLazy(AnyChar)),
    NotBehind({Backtick}),
    BackRef(1),
    NotAhead(Ch(Backtick))>>)

\* (?:\\| {2,})\n(?!\s*$)
LINEBREAK ==
  Cat(<<
    Or(<<Ch("\\"), Rep(Ch(" "), 2, -1, FALSE)>>),
    Ch("\n"),
    NotAhead(Cat(<<Star(In(Space)), EndOfString>>))>>)

\* ~~(?=\S)([\s\S]*?\S)~~
STRIKETHROUGH ==
  Cat(<<
    Word("~~"),
    Ahead(NotIn(Space)),
    Group(1, Cat(<<StarLazy(AnyChar), NotIn(Space)>>)),
    Word("~~")>>)

\* \[\^([^\]]+)\]
FOOTNOTE ==
  Cat(<<Word("[^"), Group(1, Plus(NotIn({"]"}))), Ch("]")>>)

INLINE_HTML ==
  Or(<<
    Cat(<<NotBehind({"\\"}), Ch("<"), HTML_TAGNAME, HTML_ATTRIBUTES,
          Star(In(Space)), Opt(Ch("/")), Ch(">")>>),
    Cat(<<NotBehind({"\\"}), Word("</"), HTML_TAGNAME, Star(In(Space)), Ch(">")>>),
    Cat(<<NotBehind({"\\"}), Word("<!--"), NotAhead(Or(<<Ch(">"), Word("->")>>)),
          PlusLazy(Cat(<<NotAhead(Word("--")), AnyChar>>)),
          NotBehind({"-"}), Word("-->")>>),
    Cat(<<NotBehind({"\\"}), Word("<?"), PlusLazy(AnyChar), Word("?>")>>),
    Cat(<<NotBehind({"\\"}), Word("<!"), In(UpperCase), PlusLazy(AnyChar), Ch(">")>>),
    Cat(<<NotBehind({"\\"}), Word("<![CDATA"), PlusLazy(AnyChar), Word("]]>")>>)>>)

RULE_NAMES ==
  <<"escape", "inline_html", "auto_link", "footnote",
    "std_link", "ref_link", "ref_link2", "strong", "emphasis",
    "codespan", "strikethrough", "linebreak">>

\* get_rule_pattern: the pattern attribute named by the rule
RulePattern(name) ==
  CASE name = "escape" -> ESCAPE
    [] name = "inline_html" -> INLINE_HTML
    [] name = "auto_link" -> AUTO_LINK
    [] name = "footnote" -> FOOTNOTE
    [] name = "std_link" -> STD_LINK
    [] name = "ref_link" -> REF_LINK
    [] name = "ref_link2" -> REF_LINK2
    [] name = "strong" -> STRONG
    [] name = "emphasis" -> EMPHASIS
    [] name = "codespan" -> CODESPAN
    [] name = "strikethrough" -> STRIKETHROUGH
    [] name = "linebreak" -> LINEBREAK

(* ------------------------------ scanner ------------------------------ *)
(* The next match at or after a position: the earliest start wins, and    *)
(* among rules matching at the same start the earlier rule of RULE_NAMES. *)

NoMatch == [name |-> "", from |-> 0, to |-> 0, c |-> NoGroups]

RECURSIVE RuleAt(_, _, _)
\* rule number r at j with its match object x, or the rules after it
RuleTry(s, j, r, x) ==
  IF x.ok THEN [name |-> RULE_NAMES[r], from |-> j, to |-> x.p, c |-> x.c]
  ELSE RuleAt(s, j, r + 1)

\* the first rule from number r on that matches s at j
RuleAt(s, j, r) ==
  IF r > Len(RULE_NAMES) THEN NoMatch
  ELSE RuleTry(s, j, r, Match(RulePattern(RULE_NAMES[r]), s, j))

RECURSIVE Search(_, _)
\* the match x found at j, or the search from the next position on
SearchOn(s, j, x) == IF x.name # "" THEN x ELSE Search(s, j + 1)

\* the first match of s at or after j
Search(s, j) == IF j > Len(s) THEN NoMatch ELSE SearchOn(s, j, RuleAt(s, j, 1))

\* the text of s from pos up to to, which no rule matched
Hole(pos, to) ==
  IF to > pos
  THEN <<[name |-> "text", from |-> pos, to |-> to, c |-> NoGroups]>>
  ELSE <<>>

RECURSIVE ScanFrom(_, _)
\* the next match m of s from pos on, and what follows it
ScanOn(s, pos, m) ==
  IF m.name = "" THEN Hole(pos, Len(s) + 1)
  ELSE Hole(pos, m.from) \o <<m>> \o ScanFrom(s, m.to)

\* the matches of s from pos on, with the text between them
ScanFrom(s, pos) == ScanOn(s, pos, Search(s, pos))

Scan(s) == ScanFrom(s, 1)

(* --------------------------- string helpers --------------------------- *)

UpperLetters == "ABCDEFGHIJKLMNOPQRSTUVWXYZ"

LowerLetters == "abcdefghijklmnopqrstuvwxyz"

LowerOf(ch) ==
  IF ch \in UpperCase
  THEN At(LowerLetters, CHOOSE i \in 1..Len(UpperLetters) : At(UpperLetters, i) = ch)
  ELSE ch

RECURSIVE LowerFrom(_, _)
LowerFrom(s, i) ==
  IF i > Len(s) THEN "" ELSE LowerOf(At(s, i)) \o LowerFrom(s, i + 1)

\* str.lower()
Lower(s) == LowerFrom(s, 1)

\* ch in s
Contains(s, ch) == \E i \in 1..Len(s) : At(s, i) = ch

\* s.startswith(p)
StartsWith(s, p) == Len(s) >= Len(p) /\ SubSeq(s, 1, Len(p)) = p

\* ESCAPE_CHAR matches s at i: a backslash, then a punctuation character
ESCAPE_CHAR(s, i) == i < Len(s) /\ At(s, i) = "\\" /\ At(s, i + 1) \in PUNCTUATION

RECURSIVE UnescapeFrom(_, _)
\* s from i on, every match of ESCAPE_CHAR replaced by its group 1
UnescapeFrom(s, i) ==
  IF i > Len(s) THEN ""
  ELSE IF ESCAPE_CHAR(s, i) THEN At(s, i + 1) \o UnescapeFrom(s, i + 2)
  ELSE At(s, i) \o UnescapeFrom(s, i + 1)

\* ESCAPE_CHAR.sub(r'\1', s)
Unescape(s) == UnescapeFrom(s, 1)

(* ---------------- helpers imported from the scanner module ------------ *)

RECURSIVE UnikeyFrom(_, _, _)
\* the words of s from i on, joined by one space and lower-cased;
\* gap: a word came before and white space since
UnikeyFrom(s, i, gap) ==
  IF i > Len(s) THEN ""
  ELSE IF At(s, i) \in Space THEN UnikeyFrom(s, i + 1, gap)
  ELSE (IF gap /\ i > 1 /\ At(s, i - 1) \in Space THEN " " ELSE "")
       \o LowerOf(At(s, i)) \o UnikeyFrom(s, i + 1, TRUE)

\* unikey: case-fold and collapse the white space of a reference label
unikey(s) == UnikeyFrom(s, 1, FALSE)

\* the characters escape_url leaves as they are
UrlSafe ==
  AlNum \cup {"_", ".", "-", "~", "/", "#", ":", "(", ")", "*", "?", "=", "%", "@", "+", ","}

PercentCode(ch) ==
  CASE ch = " " -> "%20" [] ch = "!" -> "%21" [] ch = "\"" -> "%22"
    [] ch = "$" -> "%24" [] ch = "'" -> "%27" [] ch = ";" -> "%3B"
    [] ch = "<" -> "%3C" [] ch = ">" -> "%3E" [] ch = "[" -> "%5B"
    [] ch = "\\" -> "%5C" [] ch = "]" -> "%5D" [] ch = "^" -> "%5E"
    [] ch = Backtick -> "%60" [] ch = "{" -> "%7B" [] ch = "|" -> "%7C"
    [] ch = "}" -> "%7D" [] ch = "\n" -> "%0A" [] ch = "\t" -> "%09"
    [] ch = "\r" -> "%0D" [] ch = "\f" -> "%0C"
    [] ch = "&" -> "&amp;"

RECURSIVE EscapeUrlFrom(_, _)
EscapeUrlFrom(s, i) ==
  IF i > Len(s) THEN ""
  ELSE (IF At(s, i) \in UrlSafe THEN At(s, i) ELSE PercentCode(At(s, i)))
       \o EscapeUrlFrom(s, i + 1)

\* escape_url: the destination, percent- and entity-escaped
escape_url(link) == EscapeUrlFrom(link, 1)

(* ------------------------------- tokens ------------------------------- *)
(* A token is the tuple an action returns, its first element the kind.    *)
(* None is <<>>, and a title t that is present is <<t>>.                  *)

None == <<>>

Some(x) == <<x>>

Text(t) == [type |-> "text", text |-> t]

\* ('link', url, text) of an autolink: text is the body, a string
AutoLink(url, text) == [type |-> "link", link |-> url, text |-> text]

\* ('link', url, text, title): text is the rendered link text
Link(url, children, title) ==
  [type |-> "link", link |-> url, children |-> children, title |-> title]

Image(src, alt, title) == [type |-> "image", src |-> src, alt |-> alt, title |-> title]

FootnoteRef(key, index) == [type |-> "footnote_ref", key |-> key, index |-> index]

Wrapper(kind, children) == [type |-> kind, children |-> children]

Codespan(code) == [type |-> "codespan", text |-> code]

InlineHtml(html) == [type |-> "inline_html", text |-> html]

Linebreak == [type |-> "linebreak"]

(* ----------------------- the actions' pure parts ---------------------- *)

\* parse_escape: m.group(0)[1:]
EscapeText(line) == SubSeq(line, 2, Len(line))

\* parse_auto_link: the destination of the body
AutoLinkDest(text) ==
  IF Contains(text, "@") /\ ~StartsWith(Lower(text), "mailto:")
  THEN "mailto:" \o text
  ELSE text

\* parse_std_link: the destination, unescaped and without its angle brackets
StdLinkDest(dest) ==
  LET link == Unescape(dest)
  IN  IF StartsWith(link, "<") /\ Len(link) >= 1 /\ At(link, Len(link)) = ">"
      THEN SubSeq(link, 2, Len(link) - 1)
      ELSE link

\* parse_std_link: the title without its quotes, unescaped; None without one
StdLinkTitle(title) ==
  IF title = "" THEN None ELSE Some(Unescape(SubSeq(title, 2, Len(title) - 1)))

\* parse_ref_link: the key looked up, from m.group(2) or the text
RefKey(group2, text) == unikey(IF group2 # "" THEN group2 ELSE text)

\* a variant of UnresolvedRef that leaves the escapes of the source in place
UnresolvedRefRaw(line) == Text(line)

\* parse_ref_link: the token of a reference that is not defined
UnresolvedRef(line) == Text(Unescape(line))

\* parse_ref_link: the title of a definition
RefTitle(title) == IF title = None THEN None ELSE Some(Unescape(title[1]))

\* a variant of EmphasisText that keeps the markers of the match
EmphasisWhole(line) == line

\* parse_emphasis: m.group(0)[1:-1]
EmphasisText(line) == SubSeq(line, 2, Len(line) - 1)

\* parse_strong: m.group(0)[2:-2]
StrongText(line) == SubSeq(line, 3, Len(line) - 2)

RECURSIVE StripLeft(_)
StripLeft(s) ==
  IF s # "" /\ At(s, 1) \in Space THEN StripLeft(SubSeq(s, 2, Len(s))) ELSE s

RECURSIVE StripRight(_)
StripRight(s) ==
  IF s # "" /\ At(s, Len(s)) \in Space THEN StripRight(SubSeq(s, 1, Len(s) - 1)) ELSE s

RECURSIVE CollapseFrom(_, _)
\* re.sub(r'[ \n]+', ' ', s) from i on
CollapseFrom(s, i) ==
  IF i > Len(s) THEN ""
  ELSE IF At(s, i) \in {" ", "\n"}
       THEN (IF i > 1 /\ At(s, i - 1) \in {" ", "\n"} THEN "" ELSE " ")
            \o CollapseFrom(s, i + 1)
       ELSE At(s, i) \o CollapseFrom(s, i + 1)

\* parse_codespan: re.sub(r'[ \n]+', ' ', m.group(2).strip())
CodespanCode(code) == CollapseFrom(StripRight(StripLeft(code)), 1)

\* parse_footnote: the key
FootnoteKey(group1) == Lower(group1)

\* a variant of FootnoteIndex that starts again at 1 with every reference
FootnoteIndexReset(st) == 1

\* parse_footnote: the index of the reference
FootnoteIndex(st) == st.footnote_index + 1

\* a variant of FootnoteState that takes the key out of def_footnotes
FootnoteStateConsuming(st, key) ==
  [st EXCEPT !.footnote_index = FootnoteIndex(st),
             !.footnotes = Append(st.footnotes, key),
             !.def_footnotes = st.def_footnotes \ {key}]

\* parse_footnote: the state after a reference to a defined key
FootnoteState(st, key) ==
  [st EXCEPT !.footnote_index = FootnoteIndex(st),
             !.footnotes = Append(st.footnotes, key)]

\* tokenize_link: the state when the text of the link has been rendered
LinkDoneState(st) == [st EXCEPT !.in_link = FALSE]

(* ------------------------------- inputs ------------------------------- *)

\* the number of render calls a caller makes with one state
MaxCalls == 2

\* the number of render calls in progress at once
MaxDepth == 4

\* the texts a caller renders
Docs ==
  {"[^a] text [^b] more [^a]", "*x [^B]* [^a]", "~~[^a]~~ [^b]", "[x [^b]](u) [^a]", "[^c]",
   "[a [b](v) c](u)", "[<http://x>](u)", "[*a* [foo]](u)",
   "<http://u@h/>", "<a@b.c>", "<MAILTO:a@b.c>", "<http://x/a b>",
   "![i](a\"b)", "[t](<a&b> 'T')", "![i][Foo]", "[foo\\*]", "[t][ FOO ]", "![x][y]",
   "[~~a~~](u)", "[b](u)", "~~[foo]~~", "**a *b* c**",
   "´*x*´ \\*", "a  \nb", "<b>"}

\* def_links as the block parser leaves it: none, or the definition of foo
DefLinks ==
  {{}, {[key |-> "foo", link |-> "/f\\(o", title |-> Some("T\\!")]}}

\* def_footnotes: none, or the keys a and b
DefFootnotes == {{}, {"a", "b"}}

\* the token kinds whose renderer method raises: none, or strikethrough
Raising == {{}, {"strikethrough"}}

(* ----------------------- the scanner on the inputs -------------------- *)
(* Scan is a function of the text alone, so the scanner's output on the   *)
(* texts the inputs lead to is computed once.                             *)

\* the text an action hands to render for the match it of s, if it hands one
Inner(s, it) ==
  LET line == SubSeq(s, it.from, it.to - 1)
  IN  CASE it.name = "emphasis" -> {EmphasisText(line)}
        [] it.name = "strong" -> {StrongText(line)}
        [] it.name \in {"strikethrough", "std_link", "ref_link", "ref_link2"} ->
             {GroupText(s, it.c, 1)}
        [] OTHER -> {}

RECURSIVE ScanAll(_, _)
\* the text t of todo with its items joins the table, and the texts the
\* actions hand to render on it join todo
ScanAdd(table, todo, t, items) ==
  ScanAll(table \cup {<<t, items>>},
          (todo \cup UNION {Inner(t, items[n]) : n \in 1..Len(items)})
            \ ({p[1] : p \in table} \cup {t}))

\* table: the pairs <<text, Scan(text)>> found; todo: the texts yet to scan
ScanAll(table, todo) ==
  IF todo = {} THEN table
  ELSE ScanAdd(table, todo, CHOOSE u \in todo : TRUE, Scan(CHOOSE u \in todo : TRUE))

Scans == ScanAll({}, Docs)

\* self._scan(s, state, rules): Scan(text), from the table where it holds it
Scanned(text) ==
  IF \E p \in Scans : p[1] = text
  THEN (CHOOSE p \in Scans : p[1] = text)[2]
  ELSE Scan(text)

(* -------------------------------- state ------------------------------- *)

VARIABLES
  state,     \* the parse state: def_links, def_footnotes, footnote_index,
             \* footnotes, in_link (the key _in_link)
  renderer,  \* the renderer: the kinds its methods raise on
  stack,     \* the render calls in progress, the innermost last
  result,    \* how the last call of the caller ended, and its tokens
  calls,     \* the calls the caller has made
  ev,        \* the last step: the action, the matched source, the token
  firstRef,  \* per footnote key: the index and the place of its first reference
  escapes    \* the calls of escape_url during the current call

vars == <<state, renderer, stack, result, calls, ev, firstRef, escapes>>

\* the last step: the action, the source it matched, the tokens it returned,
\* and whether it was a reference that def_links does not define
NoEvent == [op |-> "", line |-> "", toks |-> <<>>, unresolved |-> FALSE]

Event(op, line, toks) == [op |-> op, line |-> line, toks |-> toks, unresolved |-> FALSE]

NoRef == [index |-> 0, call |-> 0, pos |-> 0]

Init ==
  /\ \E dl \in DefLinks, df \in DefFootnotes :
       state = [def_links |-> dl, def_footnotes |-> df, footnote_index |-> 0,
                footnotes |-> <<>>, in_link |-> FALSE]
  /\ \E r \in Raising : renderer = [raises |-> r]
  /\ stack = <<>>
  /\ result = [st |-> "none", toks |-> <<>>]
  /\ calls = 0
  /\ ev = NoEvent
  /\ firstRef = [k \in {"a", "b"} |-> NoRef]
  /\ escapes = 0

\* a render call in progress: the text, what the scanner yields on it, the
\* number of the next item, the tokens so far, the action waiting for it
\* (wait) with its url and title, the place of the text in the caller's text
\* (off), and in_link as it was when the action was entered (prior)
Frame(text, wait, link, title, off, prior) ==
  [text |-> text, items |-> Scanned(text), n |-> 1, toks |-> <<>>, wait |-> wait,
   link |-> link, title |-> title, off |-> off, prior |-> prior]

Running == stack # <<>>

Top == stack[Len(stack)]

\* what the scanner yields on the text of the innermost call
Items == Top.items

HasItem == Running /\ Top.n <= Len(Items)

AtEnd == Running /\ Top.n > Len(Items)

Cur == Items[Top.n]

\* m.group(0)
CurLine == SubSeq(Top.text, Cur.from, Cur.to - 1)

\* m.group(n)
CurGroup(n) == GroupText(Top.text, Cur.c, n)

Matched(rule) == HasItem /\ Cur.name = rule

\* parse, line 220: the renderer's method is applied to the tuple tok, which
\* the action returned in the innermost call of stk, leaving the state st
Deliver(stk, tok, st) ==
  /\ state' = st
  /\ IF tok.type \in renderer.raises
     THEN /\ stack' = <<>>
          /\ result' = [st |-> "error", toks |-> <<>>]
     ELSE /\ stack' = [stk EXCEPT ![Len(stk)] =
                         [@ EXCEPT !.toks = Append(@, tok), !.n = @ + 1]]
          /\ UNCHANGED result

\* render(text, state) is entered from the action waiting for it
Enter(text, wait, link, title, from, st) ==
  /\ Len(stack) < MaxDepth
  /\ state' = st
  /\ stack' = Append(stack, Frame(text, wait, link, title, Top.off + from - 1, state.in_link))
  /\ UNCHANGED result

\* the innermost call has ended and the one below goes on
Below == SubSeq(stack, 1, Len(stack) - 1)

(* ------------------------------- actions ------------------------------ *)

\* __call__: the caller renders a text with the state
Call(doc) ==
  /\ ~Running
  /\ calls < MaxCalls
  /\ calls' = calls + 1
  /\ stack' = <<Frame(doc, "call", "", None, 0, state.in_link)>>
  /\ result' = [st |-> "none", toks |-> <<>>]
  /\ ev' = Event("call", doc, <<>>)
  /\ escapes' = 0
  /\ UNCHANGED <<state, renderer, firstRef>>

\* render returns the tokens to the caller
ReturnCall ==
  /\ AtEnd /\ Top.wait = "call"
  /\ stack' = <<>>
  /\ result' = [st |-> "ok", toks |-> Top.toks]
  /\ ev' = Event("return", Top.text, <<>>)
  /\ UNCHANGED <<state, renderer, calls, firstRef, escapes>>

ParseText ==
  /\ Matched("text")
  /\ \E tok \in {Text(CurLine)} :
       /\ Deliver(stack, tok, state)
       /\ ev' = Event("text", CurLine, <<tok>>)
  /\ UNCHANGED <<renderer, calls, firstRef, escapes>>

ParseEscape ==
  /\ Matched("escape")
  /\ \E tok \in {Text(EscapeText(CurLine))} :
       /\ Deliver(stack, tok, state)
       /\ ev' = Event("escape", CurLine, <<tok>>)
  /\ UNCHANGED <<renderer, calls, firstRef, escapes>>

ParseAutoLink ==
  /\ Matched("auto_link")
  /\ \E text \in {CurGroup(1)} :
       \E tok \in {AutoLink(escape_url(AutoLinkDest(text)), text)} :
         /\ Deliver(stack, tok, state)
         /\ ev' = Event("auto_link", CurLine, <<tok>>)
  /\ escapes' = escapes + 1
  /\ UNCHANGED <<renderer, calls, firstRef>>

\* tokenize_link up to the render of the text
TokenizeLink(op, line, link, text, title, from) ==
  IF state.in_link
  THEN /\ Deliver(stack, Text(line), state)
       /\ ev' = Event(op, line, <<Text(line)>>)
  ELSE /\ Enter(text, "link", link, title, from, [state EXCEPT !.in_link = TRUE])
       /\ ev' = Event(op, line, <<>>)

ParseStdLink ==
  /\ Matched("std_link")
  /\ \E line \in {CurLine}, text \in {CurGroup(1)},
        link \in {StdLinkDest(CurGroup(2))}, title \in {StdLinkTitle(CurGroup(3))} :
       IF At(line, 1) = "!"
       THEN /\ Deliver(stack, Image(link, text, title), state)
            /\ ev' = Event("std_link", line, <<Image(link, text, title)>>)
       ELSE TokenizeLink("std_link", line, link, text, title, Cur.c[1][1])
  /\ UNCHANGED <<renderer, calls, firstRef, escapes>>

\* parse_ref_link on the current match
RefLink(op) ==
  \E line \in {CurLine}, text \in {CurGroup(1)}, def_links \in {state.def_links} :
    \E key \in {RefKey(CurGroup(2), text)} :
      IF def_links = {} \/ key \notin {d.key : d \in def_links}
      THEN \E tok \in {UnresolvedRef(line)} :
             /\ Deliver(stack, tok, state)
             /\ ev' = [Event(op, line, <<tok>>) EXCEPT !.unresolved = TRUE]
      ELSE \E def \in {d \in def_links : d.key = key} :
             \E link \in {Unescape(def.link)}, title \in {RefTitle(def.title)} :
               IF At(line, 1) = "!"
               THEN /\ Deliver(stack, Image(link, text, title), state)
                    /\ ev' = Event(op, line, <<Image(link, text, title)>>)
               ELSE TokenizeLink(op, line, link, text, title, Cur.c[1][1])

ParseRefLink ==
  /\ Matched("ref_link")
  /\ RefLink("ref_link")
  /\ UNCHANGED <<renderer, calls, firstRef, escapes>>

ParseRefLink2 ==
  /\ Matched("ref_link2")
  /\ RefLink("ref_link2")
  /\ UNCHANGED <<renderer, calls, firstRef, escapes>>

\* tokenize_link from the return of render on
ReturnLink ==
  /\ AtEnd /\ Top.wait = "link"
  /\ \E tok \in {Link(escape_url(Top.link), Top.toks, Top.title)} :
       /\ Deliver(Below, tok, LinkDoneState(state))
       /\ ev' = Event("link", Top.text, <<tok>>)
  /\ escapes' = escapes + 1
  /\ UNCHANGED <<renderer, calls, firstRef>>

ParseFootnote ==
  /\ Matched("footnote")
  /\ \E key \in {FootnoteKey(CurGroup(1))}, def_footnotes \in {state.def_footnotes} :
       IF def_footnotes = {} \/ key \notin def_footnotes
       THEN /\ Deliver(stack, Text(CurLine), state)
            /\ ev' = Event("footnote", CurLine, <<Text(CurLine)>>)
            /\ UNCHANGED firstRef
       ELSE \E tok \in {FootnoteRef(key, FootnoteIndex(state))} :
              /\ Deliver(stack, tok, FootnoteState(state, key))
              /\ ev' = Event("footnote", CurLine, <<tok>>)
              /\ firstRef' =
                   IF firstRef[key].index = 0
                   THEN [firstRef EXCEPT ![key] =
                           [index |-> tok.index, call |-> calls,
                            pos |-> Top.off + Cur.from]]
                   ELSE firstRef
  /\ UNCHANGED <<renderer, calls, escapes>>

ParseEmphasis ==
  /\ Matched("emphasis")
  /\ \E text \in {EmphasisText(CurLine)} :
       Enter(text, "emphasis", "", None, Cur.from + 1, state)
  /\ ev' = Event("emphasis", CurLine, <<>>)
  /\ UNCHANGED <<renderer, calls, firstRef, escapes>>

ParseStrong ==
  /\ Matched("strong")
  /\ \E text \in {StrongText(CurLine)} :
       Enter(text, "strong", "", None, Cur.from + 2, state)
  /\ ev' = Event("strong", CurLine, <<>>)
  /\ UNCHANGED <<renderer, calls, firstRef, escapes>>

ParseStrikethrough ==
  /\ Matched("strikethrough")
  /\ \E text \in {CurGroup(1)} :
       Enter(text, "strikethrough", "", None, Cur.c[1][1], state)
  /\ ev' = Event("strikethrough", CurLine, <<>>)
  /\ UNCHANGED <<renderer, calls, firstRef, escapes>>

\* parse_emphasis, parse_strong, parse_strikethrough from the return of
\* render on
ReturnWrapper ==
  /\ AtEnd /\ Top.wait \in {"emphasis", "strong", "strikethrough"}
  /\ \E tok \in {Wrapper(Top.wait, Top.toks)} :
       /\ Deliver(Below, tok, state)
       /\ ev' = Event(Top.wait, Top.text, <<tok>>)
  /\ UNCHANGED <<renderer, calls, firstRef, escapes>>

ParseCodespan ==
  /\ Matched("codespan")
  /\ \E tok \in {Codespan(CodespanCode(CurGroup(2)))} :
       /\ Deliver(stack, tok, state)
       /\ ev' = Event("codespan", CurLine, <<tok>>)
  /\ UNCHANGED <<renderer, calls, firstRef, escapes>>

ParseLinebreak ==
  /\ Matched("linebreak")
  /\ Deliver(stack, Linebreak, state)
  /\ ev' = Event("linebreak", CurLine, <<Linebreak>>)
  /\ UNCHANGED <<renderer, calls, firstRef, escapes>>

ParseInlineHtml ==
  /\ Matched("inline_html")
  /\ \E tok \in {InlineHtml(CurLine)} :
       /\ Deliver(stack, tok, state)
       /\ ev' = Event("inline_html", CurLine, <<tok>>)
  /\ UNCHANGED <<renderer, calls, firstRef, escapes>>

\* the steps of a render call in progress
Work ==
  \/ ParseText \/ ParseEscape \/ ParseInlineHtml \/ ParseAutoLink
  \/ ParseFootnote \/ ParseStdLink \/ ParseRefLink \/ ParseRefLink2
  \/ ParseStrong \/ ParseEmphasis \/ ParseCodespan \/ ParseStrikethrough
  \/ ParseLinebreak \/ ReturnWrapper \/ ReturnLink \/ ReturnCall

Next == (\E doc \in Docs : Call(doc)) \/ Work

Spec == Init /\ [][Next]_vars

\* a call in progress goes on: the code runs to its return or its raise
FairSpec == Spec /\ WF_vars(Work)

(* ------------------------------ properties ---------------------------- *)

HasChildren(tok) == "children" \in DOMAIN tok

RECURSIVE ContainsLink(_)
\* a link token among toks, at any depth
ContainsLink(toks) ==
  \E i \in 1..Len(toks) :
    \/ toks[i].type = "link"
    \/ HasChildren(toks[i]) /\ ContainsLink(toks[i].children)

RECURSIVE NestedLink(_)
\* a link token among toks, at any depth, whose rendered text holds a link
NestedLink(toks) ==
  \E i \in 1..Len(toks) :
    /\ HasChildren(toks[i])
    /\ \/ toks[i].type = "link" /\ ContainsLink(toks[i].children)
       \/ NestedLink(toks[i].children)

RECURSIVE CountDest(_)
\* the link and image tokens among toks, at any depth
CountDest(toks) ==
  IF toks = <<>> THEN 0
  ELSE (IF Head(toks).type \in {"link", "image"} THEN 1 ELSE 0)
       + (IF HasChildren(Head(toks)) THEN CountDest(Head(toks).children) ELSE 0)
       + CountDest(Tail(toks))

\* the keys referenced so far
Referenced == {k \in DOMAIN firstRef : firstRef[k].index # 0}

\* the first reference r1 comes before r2 in the source the caller rendered
Earlier(r1, r2) == r1.call < r2.call \/ (r1.call = r2.call /\ r1.pos < r2.pos)

\* the scheme of a link body, as the first alternative of AUTO_LINK has it
Scheme == Cat(<<In(Alpha), Rep(In(AlNum \cup {"+", ".", "-"}), 1, 31, FALSE), Ch(":")>>)

HasScheme(text) == Match(Scheme, text, 1).ok

\* the actions that hand a text to render
Entering == {"emphasis", "strong", "strikethrough", "std_link", "ref_link", "ref_link2"}

\* C1: every FootnoteRef a reference emits carries the index its key got at
\* its first reference, and the first references are numbered 1, 2, ... with
\* no gap, so no index exceeds the number of keys referenced.
C1_IndexStable ==
  /\ \A i \in 1..Len(ev.toks) :
       ev.toks[i].type = "footnote_ref" =>
         ev.toks[i].index = firstRef[ev.toks[i].key].index
  /\ \A k \in DOMAIN firstRef : firstRef[k].index <= Cardinality(Referenced)

\* C2: the tokens a call returns hold no Link whose rendered text holds a
\* Link, at any depth and whichever rule matched inside the link text.
C2_LinksNeverNest == ~NestedLink(result.toks)

\* C3: when the render of a link's text is over, by a return or by a raise,
\* in_link is what it was just before the link was entered.
C3_InLinkRestored ==
  [][\A i \in 1..Len(stack) :
       (stack[i].wait = "link" /\ Len(stack') < i) =>
         state'.in_link = stack[i].prior]_vars

\* C4: footnotes holds each referenced key once, and footnote_index is the
\* number of distinct keys referenced.
C4_FootnotesOnce ==
  /\ \A i, j \in 1..Len(state.footnotes) :
       state.footnotes[i] = state.footnotes[j] => i = j
  /\ state.footnote_index =
       Cardinality({state.footnotes[i] : i \in 1..Len(state.footnotes)})

\* C5: escape_url is applied once for every Link and every Image a call
\* returns, and to nothing else: the applications of a call are as many as
\* the Link and Image tokens of its result.
C5_EscapedOnce == ev.op = "return" => escapes = CountDest(result.toks)

\* C6 as the specification states it: a reference that def_links does not
\* define is returned as one Text token holding the matched source unchanged.
C6_SourceUnchanged == ev.unresolved => ev.toks = <<Text(ev.line)>>

\* C6, amended: a reference that def_links does not define is returned as one
\* Text token holding the matched source with the backslash taken off every
\* escaped punctuation character; no render is entered, and the state and the
\* depth of the calls stay as they were.
C6_SourceUnescaped ==
  [][ev'.unresolved /\ ev' # ev =>
       /\ ev'.toks = <<Text(Unescape(ev'.line))>>
       /\ state' = state
       /\ Len(stack') = Len(stack)
       /\ result' = result]_vars

\* a reference that is not defined and holds an escaped character has been
\* returned as text
C6_Witness ==
  /\ ev.unresolved
  /\ Unescape(ev.line) # ev.line
  /\ Running /\ Top.toks # <<>> /\ Top.toks[Len(Top.toks)] = ev.toks[1]

\* the text an action has just handed to render is shorter than its match
InnerShorter ==
  (Running /\ ev.op \in Entering /\ ev.toks = <<>>) => Len(Top.text) < Len(ev.line)

\* C7: every call of render ends, with a token sequence unless a method of
\* the renderer raises, and every text an action hands to render is strictly
\* shorter than the match of the action.
C7_RenderTerminates ==
  /\ []InnerShorter
  /\ Running ~> (~Running /\ (renderer.raises = {} => result.st = "ok"))

\* a render two levels below the caller's is in progress
C7_Witness == Len(stack) = 3 /\ Top.n = 1 /\ ev.op \in Entering

\* C8: the destination of an autolink is the body with mailto: before it if
\* and only if the body holds an @ and no scheme, and the text is the body.
C8_MailtoIffNoScheme ==
  ev.op = "auto_link" =>
    ev.toks[1].link =
      escape_url(IF Contains(ev.toks[1].text, "@") /\ ~HasScheme(ev.toks[1].text)
                 THEN "mailto:" \o ev.toks[1].text
                 ELSE ev.toks[1].text)

\* C9: no step changes def_links or def_footnotes, and no step adds a field
\* to the state or takes one away.
C9_DefsReadOnly ==
  [][/\ state'.def_links = state.def_links
     /\ state'.def_footnotes = state.def_footnotes
     /\ DOMAIN state' = DOMAIN state]_vars

\* in a second call on a state with footnotes referenced, a link that
\* def_links defines has been resolved
C9_Witness ==
  /\ calls = 2
  /\ state.footnotes # <<>>
  /\ ev.op = "link" /\ state.def_links # {}
  /\ ev.toks[1].link = escape_url(Unescape((CHOOSE d \in state.def_links : TRUE).link))

\* the first references are numbered in the order of the source
InSourceOrder ==
  \A j, k \in Referenced :
    Earlier(firstRef[j], firstRef[k]) => firstRef[j].index < firstRef[k].index

\* C10: of two defined keys the one first referenced earlier in the source,
\* nested or not and in this call or an earlier one, has the smaller index,
\* and footnote_index never goes down.
C10_DocumentOrder ==
  /\ []InSourceOrder
  /\ [][state'.footnote_index >= state.footnote_index]_vars

\* both keys are referenced, in different calls, the later one inside a
\* nested render
C10_Witness ==
  /\ Referenced = {"a", "b"}
  /\ firstRef["a"].call # firstRef["b"].call
  /\ ev.op = "footnote" /\ Len(stack) > 1

====
